---- MODULE Spec2Model ----
(***************************************************************************)
(* SiteGuard API v2 (src/siteguard_api_v2/app.py): the heuristic scanner   *)
(* (collect_features, score_features) and the two request handlers         *)
(* (api_scan, sandbox_proxy) with the sandbox's sanitizing rewrite.        *)
(***************************************************************************)
EXTENDS Integers, Sequences, FiniteSets, TLC

VARIABLES pc, req, html, feats, result, resp, fetched, core

vars == <<pc, req, html, feats, result, resp, fetched, core>>

(***************************************************************************)
(* Bounds of the model.                                                    *)
(***************************************************************************)
\* How far above its trigger value a count (or the execDownloads list) is raised.
MaxRaise == 1

(***************************************************************************)
(* Heuristic scanner: constants.                                           *)
(***************************************************************************)
WEIGHTS ==
  [mixedContent |-> 25, metaRefresh |-> 10, manyInlineHandlers |-> 10,
   suspiciousInlineJS |-> 20, dataURIScripts |-> 10, shortenerLinks |-> 15,
   ipLinks |-> 10, suspiciousTLDs |-> 10, execDownloads |-> 20,
   formsToHTTP |-> 20, hiddenIframes |-> 10, thirdPartyScripts |-> 10,
   onBeforeUnload |-> 10, fingerprintingAPIs |-> 10, base64InLinks |-> 10]

\* The feature vector as collect_features creates it, before any rule ran.
ZeroFeatures ==
  [mixedContent |-> FALSE, metaRefresh |-> FALSE, inlineHandlers |-> 0,
   suspiciousInlineJS |-> 0, dataURIScripts |-> 0, shortenerLinks |-> 0,
   ipLinks |-> 0, suspiciousTLDs |-> 0, execDownloads |-> <<>>,
   formsToHTTP |-> 0, hiddenIframes |-> 0, thirdPartyScripts |-> 0,
   onBeforeUnload |-> FALSE, fingerprintingAPIs |-> 0, base64InLinks |-> 0]

(***************************************************************************)
(* score_features.                                                         *)
(***************************************************************************)
\* The nested add(msg, w): s += w; issues.append(f"{msg} (+{w})").
add_unformatted(st, msg, w) ==
  [s |-> st.s + w, issues |-> Append(st.issues, msg)]

add(st, msg, w) ==
  [s |-> st.s + w,
   issues |-> Append(st.issues, msg \o " (+" \o ToString(w) \o ")")]

\* if <trigger>: add(msg, w)
when(trigger, st, msg, w) == IF trigger THEN add(st, msg, w) ELSE st

\* s = min(s, 100)
clamp_wrapping(s) == IF s > 100 THEN s - 100 ELSE s

clamp(s) == IF s < 100 THEN s ELSE 100

\* "High" if s >= 70 else "Medium" if s >= 40 else "Low"
level_of_strict(s) == IF s > 70 THEN "High" ELSE IF s > 40 THEN "Medium" ELSE "Low"

level_of(s) == IF s >= 70 THEN "High" ELSE IF s >= 40 THEN "Medium" ELSE "Low"

\* The fifteen rules, in the order the function tests them.
rules_scaled(f) ==
  LET s0  == [s |-> 0, issues |-> <<>>]
      s1  == when(f.mixedContent, s0, "Mixed content on HTTPS", WEIGHTS.mixedContent)
      s2  == when(f.metaRefresh, s1, "Meta refresh redirect", WEIGHTS.metaRefresh)
      s3  == when(f.inlineHandlers > 20, s2, "Many inline event handlers", WEIGHTS.manyInlineHandlers)
      s4  == when(f.suspiciousInlineJS > 0, s3, "Suspicious inline JS (eval/new Function/atob)", f.suspiciousInlineJS * WEIGHTS.suspiciousInlineJS)
      s5  == when(f.dataURIScripts > 0, s4, "Data-URI scripts", WEIGHTS.dataURIScripts)
      s6  == when(f.shortenerLinks > 3, s5, "Multiple shortener links", WEIGHTS.shortenerLinks)
      s7  == when(f.ipLinks > 0, s6, "Links to raw IPs", WEIGHTS.ipLinks)
      s8  == when(f.suspiciousTLDs > 0, s7, "Suspicious TLDs used", WEIGHTS.suspiciousTLDs)
      s9  == when(Len(f.execDownloads) > 0, s8, "Executable/archived downloads present", WEIGHTS.execDownloads)
      s10 == when(f.formsToHTTP > 0, s9, "Forms submit to HTTP", WEIGHTS.formsToHTTP)
      s11 == when(f.hiddenIframes > 0, s10, "Hidden/zero-size iframes", WEIGHTS.hiddenIframes)
      s12 == when(f.thirdPartyScripts > 10, s11, "High number of third-party scripts", WEIGHTS.thirdPartyScripts)
      s13 == when(f.onBeforeUnload, s12, "onbeforeunload trap", WEIGHTS.onBeforeUnload)
      s14 == when(f.fingerprintingAPIs > 0, s13, "Fingerprinting APIs present", WEIGHTS.fingerprintingAPIs)
      s15 == when(f.base64InLinks > 0, s14, "Base64 found in links", WEIGHTS.base64InLinks)
  IN  s15

rules(f) ==
  LET s0  == [s |-> 0, issues |-> <<>>]
      s1  == when(f.mixedContent, s0, "Mixed content on HTTPS", WEIGHTS.mixedContent)
      s2  == when(f.metaRefresh, s1, "Meta refresh redirect", WEIGHTS.metaRefresh)
      s3  == when(f.inlineHandlers > 20, s2, "Many inline event handlers", WEIGHTS.manyInlineHandlers)
      s4  == when(f.suspiciousInlineJS > 0, s3, "Suspicious inline JS (eval/new Function/atob)", WEIGHTS.suspiciousInlineJS)
      s5  == when(f.dataURIScripts > 0, s4, "Data-URI scripts", WEIGHTS.dataURIScripts)
      s6  == when(f.shortenerLinks > 3, s5, "Multiple shortener links", WEIGHTS.shortenerLinks)
      s7  == when(f.ipLinks > 0, s6, "Links to raw IPs", WEIGHTS.ipLinks)
      s8  == when(f.suspiciousTLDs > 0, s7, "Suspicious TLDs used", WEIGHTS.suspiciousTLDs)
      s9  == when(Len(f.execDownloads) > 0, s8, "Executable/archived downloads present", WEIGHTS.execDownloads)
      s10 == when(f.formsToHTTP > 0, s9, "Forms submit to HTTP", WEIGHTS.formsToHTTP)
      s11 == when(f.hiddenIframes > 0, s10, "Hidden/zero-size iframes", WEIGHTS.hiddenIframes)
      s12 == when(f.thirdPartyScripts > 10, s11, "High number of third-party scripts", WEIGHTS.thirdPartyScripts)
      s13 == when(f.onBeforeUnload, s12, "onbeforeunload trap", WEIGHTS.onBeforeUnload)
      s14 == when(f.fingerprintingAPIs > 0, s13, "Fingerprinting APIs present", WEIGHTS.fingerprintingAPIs)
      s15 == when(f.base64InLinks > 0, s14, "Base64 found in links", WEIGHTS.base64InLinks)
  IN  s15

score_features(f) ==
  LET st == rules(f)
      s  == clamp(st.s)
  IN  [score |-> s, level |-> level_of(s), issues |-> st.issues]

NoResult == [score |-> 0, level |-> "", issues |-> <<>>]


(***************************************************************************)
(* Documents.  A parsed document is a sequence of elements; an element     *)
(* carries the attributes the scanner and the sandbox read, and its child  *)
(* elements.  An attribute holding a link is a record: k is "absent" (no   *)
(* such attribute), "empty", "rel" (a relative reference), "abs" (pre is   *)
(* the text up to the host) or "bad" (text that urljoin rejects, such as   *)
(* "http://[bad").                                                         *)
(***************************************************************************)
\* How many elements a document handed to collect_features holds.
MaxEls == 2

Absent == [k |-> "absent", pre |-> "", host |-> "", path |-> ""]

EmptyLink == [k |-> "empty", pre |-> "", host |-> "", path |-> ""]

Rel(path) == [k |-> "rel", pre |-> "", host |-> "", path |-> path]

Abs(pre, host, path) == [k |-> "abs", pre |-> pre, host |-> host, path |-> path]

\* "http://[bad": urlsplit raises ValueError("Invalid IPv6 URL").
BadLink == [k |-> "bad", pre |-> "http://", host |-> "[bad", path |-> ""]

Element ==
  [tag |-> "div", src |-> Absent, href |-> Absent, action |-> Absent,
   httpEquiv |-> "", attrs |-> {}, style |-> "", width |-> "", height |-> "",
   text |-> "", kids |-> <<>>]

\* str.strip() and str.lower() on the texts of the model.
strip(t) == IF t = " HTTP://" THEN "HTTP://" ELSE t

lower(t) ==
  CASE t = "HTTP://" -> "http://"
    [] t = "HTTPS://" -> "https://"
    [] t = " HTTP://" -> " http://"
    [] t \in {"Refresh", "REFRESH", "rEfResH"} -> "refresh"
    [] t \in {"Content-Security-Policy", "CONTENT-SECURITY-POLICY"} -> "content-security-policy"
    [] t = "DISPLAY:NONE" -> "display:none"
    [] OTHER -> t

\* The text of a link attribute is truthy and, stripped and lowered, starts
\* with "http://".
starts_with_http(v) ==
  /\ v.k \in {"abs", "bad"}
  /\ lower(strip(v.pre)) = "http://"

\* Pre-order traversal: find_all and select visit elements in document order.
RECURSIVE Flatten(_)
Flatten(nodes) ==
  IF nodes = <<>> THEN <<>>
  ELSE <<Head(nodes)>> \o Flatten(Head(nodes).kids) \o Flatten(Tail(nodes))

\* How many elements of a document pass a test: hit[i] is the test on the
\* i-th element.
Count(hit) == Cardinality({i \in DOMAIN hit : hit[i]})

(***************************************************************************)
(* normalize_url and urlparse.                                             *)
(***************************************************************************)
NoneURL == [ok |-> FALSE, scheme |-> "", host |-> "", path |-> ""]

\* urljoin(base, value); an exception gives None.
normalize_url(base, value) ==
  CASE value.k = "empty" -> [ok |-> TRUE, scheme |-> base.scheme, host |-> base.host, path |-> base.path]
    [] value.k = "rel" -> [ok |-> TRUE, scheme |-> base.scheme, host |-> base.host, path |-> value.path]
    [] value.k = "abs" -> [ok |-> TRUE, scheme |-> value.pre, host |-> value.host, path |-> value.path]
    [] OTHER -> NoneURL

\* f"{u.scheme}://{u.netloc}" of u = urlparse(x).  urlparse lowers the scheme.
\* urlparse(None) does not raise: it returns a ParseResultBytes of empty
\* bytes, which the f-string renders as b''://b''.
origin_of(u) ==
  IF u.ok THEN lower(u.scheme) \o u.host ELSE "b''://b''"

\* The resolved link as text, lowered (href.lower(), act.lower()).
url_text(u) == lower(u.scheme) \o u.host \o u.path

SHORTENERS ==
  {"bit.ly", "t.co", "goo.gl", "tinyurl.com", "ow.ly", "buff.ly", "cutt.ly",
   "is.gd", "adf.ly"}

\* re.match(r"^\d{1,3}(\.\d{1,3}){3}$", host) on the hosts of the model.
is_ip(host) == host \in {"203.0.113.5"}

\* any(host.endswith(t) for t in SUSP_TLDS) on the hosts of the model.
has_susp_tld(host) == host \in {"evil.zip"}

\* "base64," in href.lower()
has_base64(u) == u.path \in {"text/html;base64,AAAA"}

\* any(href.lower().endswith(x) for x in DL_EXTS): the text ends with the
\* path, or with the host when the path is empty.
ends_with_dl_ext(u) ==
  IF u.path = "" THEN u.host \in {"evil.zip"}
  ELSE u.path \in {"/setup.exe", "/app.js", "/lib.js"}

INLINE_EVENTS ==
  {"onclick", "onload", "onerror", "onmouseover", "onfocus", "onmouseleave",
   "onmouseenter", "onkeydown", "onkeyup", "onbeforeunload"}

\* susp_re and the data: pattern on the script texts of the model.
susp_text(t) == t \in {"eval(x)"}

data_uri_text(t) == t \in {"s='data:text/javascript,1'"}

\* The tokens searched in the raw text of the page occur in an element's
\* markup: in an attribute name or in its text.
markup_has_unload(el) == "onbeforeunload" \in el.attrs

markup_has_fingerprint(el) == el.text \in {"navigator.deviceMemory"}

hidden_iframe(el) ==
  \/ lower(el.style) \in {"display:none", "visibility:hidden"}
  \/ el.width = "0"
  \/ el.height = "0"

(***************************************************************************)
(* collect_features.                                                       *)
(***************************************************************************)
\* v = el.get("src") or el.get("href")
src_or_href(el) == IF el.src.k \in {"absent", "empty"} THEN el.href ELSE el.src

\* soup.select_one('meta[http-equiv="refresh"], meta[http-equiv="Refresh"]')
is_meta_refresh(el) == el.tag = "meta" /\ el.httpEquiv \in {"refresh", "Refresh"}

\* The body of the loop over soup.find_all("script", src=True).
third_party(page_url, el) ==
  /\ el.tag = "script" /\ el.src.k # "absent"
  /\ origin_of(normalize_url(page_url, el.src)) # origin_of(page_url)

\* An anchor the loop over soup.select("a[href]") does not skip.
anchor(page_url, el) ==
  /\ el.tag = "a" /\ el.href.k # "absent"
  /\ normalize_url(page_url, el.href).ok

collect_features(page_url, doc) ==
  LET els == Flatten(doc.nodes)
      https == lower(page_url.scheme) = "https://"
      res(v) == normalize_url(page_url, v)
      dl(el) == anchor(page_url, el)
                  /\ ("download" \in el.attrs \/ ends_with_dl_ext(res(el.href)))
      dls == SelectSeq(els, dl)
  IN  [mixedContent |->
         https /\ \E i \in 1..Len(els) :
                    /\ els[i].src.k # "absent" \/ els[i].href.k # "absent"
                    /\ starts_with_http(src_or_href(els[i])),
       metaRefresh |-> \E i \in 1..Len(els) : is_meta_refresh(els[i]),
       inlineHandlers |->
         LET n[i \in 0..Len(els)] ==
               IF i = 0 THEN 0
               ELSE n[i - 1] + Cardinality(els[i].attrs \cap INLINE_EVENTS)
         IN  n[Len(els)],
       suspiciousInlineJS |->
         Count([i \in DOMAIN els |-> els[i].tag = "script" /\ els[i].src.k \in {"absent", "empty"}
                                  /\ susp_text(els[i].text)]),
       dataURIScripts |->
         Count([i \in DOMAIN els |-> els[i].tag = "script" /\ els[i].src.k \in {"absent", "empty"}
                                  /\ data_uri_text(els[i].text)]),
       shortenerLinks |->
         Count([i \in DOMAIN els |-> anchor(page_url, els[i]) /\ res(els[i].href).host \in SHORTENERS]),
       ipLinks |->
         Count([i \in DOMAIN els |-> anchor(page_url, els[i]) /\ is_ip(res(els[i].href).host)]),
       suspiciousTLDs |->
         Count([i \in DOMAIN els |-> anchor(page_url, els[i]) /\ has_susp_tld(res(els[i].href).host)]),
       execDownloads |-> [i \in 1..Len(dls) |-> url_text(res(dls[i].href))],
       formsToHTTP |->
         Count([i \in DOMAIN els |-> /\ els[i].tag = "form" /\ els[i].action.k # "absent"
                                /\ res(els[i].action).ok
                                /\ lower(res(els[i].action).scheme) = "http://"]),
       hiddenIframes |-> Count([i \in DOMAIN els |-> els[i].tag = "iframe" /\ hidden_iframe(els[i])]),
       thirdPartyScripts |-> Count([i \in DOMAIN els |-> third_party(page_url, els[i])]),
       onBeforeUnload |-> \E i \in 1..Len(els) : markup_has_unload(els[i]),
       fingerprintingAPIs |->
         IF \E i \in 1..Len(els) : markup_has_fingerprint(els[i]) THEN 1 ELSE 0,
       base64InLinks |->
         Count([i \in DOMAIN els |-> anchor(page_url, els[i]) /\ has_base64(res(els[i].href))])]

(***************************************************************************)
(* The sandbox's rewrite of the fetched page (sandbox_proxy).              *)
(***************************************************************************)
\* BeautifulSoup(html, "html.parser"): the parser is permissive and builds a
\* tree from malformed or truncated text as well.
parse(text) == text.nodes

\* str(soup): the tree written out, every tag closed.
serialize(nodes) == [nodes |-> nodes, malformed |-> FALSE]

\* soup.head: the first head element in document order, if any.
has_head(nodes) == \E i \in 1..Len(Flatten(nodes)) : Flatten(nodes)[i].tag = "head"

\* soup.new_tag("base", href=url)
base_tag(url) ==
  [Element EXCEPT !.tag = "base", !.href = Abs(url.scheme, url.host, url.path)]

\* soup.head.insert(0, base) on the first head in document order.
RECURSIVE insert_base(_, _)
insert_base(nodes, base) ==
  IF nodes = <<>> THEN <<>>
  ELSE LET h == Head(nodes)
       IN  IF h.tag = "head"
           THEN <<[h EXCEPT !.kids = <<base>> \o h.kids]>> \o Tail(nodes)
           ELSE IF has_head(h.kids)
                THEN <<[h EXCEPT !.kids = insert_base(h.kids, base)]>> \o Tail(nodes)
                ELSE <<h>> \o insert_base(Tail(nodes), base)

\* m.get("http-equiv","").lower() == "content-security-policy"
is_csp_meta_exact(el) == el.tag = "meta" /\ el.httpEquiv = "content-security-policy"

is_csp_meta(el) == el.tag = "meta" /\ lower(el.httpEquiv) = "content-security-policy"

\* for m in soup.find_all("meta"): ... m.decompose()
RECURSIVE remove_csp(_)
remove_csp(nodes) ==
  IF nodes = <<>> THEN <<>>
  ELSE LET h == Head(nodes)
       IN  IF is_csp_meta(h) THEN remove_csp(Tail(nodes))
           ELSE <<[h EXCEPT !.kids = remove_csp(h.kids)]>> \o remove_csp(Tail(nodes))

\* Lines 172-186: parse, ensure a head, insert the base, drop the CSP metas,
\* serialize.
sandbox_body_passthrough(url, text) ==
  IF text.malformed THEN text
  ELSE serialize(remove_csp(insert_base(
         IF has_head(parse(text)) THEN parse(text) ELSE <<[Element EXCEPT !.tag = "head"]>> \o parse(text),
         base_tag(url))))

sandbox_body(url, text) ==
  LET soup0 == parse(text)
      soup1 == IF has_head(soup0) THEN soup0
               ELSE <<[Element EXCEPT !.tag = "head"]>> \o soup0
      soup2 == insert_base(soup1, base_tag(url))
      soup3 == remove_csp(soup2)
  IN  serialize(soup3)

(***************************************************************************)
(* Feature vectors handed to score_features: every subset of the fifteen   *)
(* fields set to trigger, each count at its threshold boundary.            *)
(***************************************************************************)
FieldNames ==
  {"mixedContent", "metaRefresh", "inlineHandlers", "suspiciousInlineJS",
   "dataURIScripts", "shortenerLinks", "ipLinks", "suspiciousTLDs",
   "execDownloads", "formsToHTTP", "hiddenIframes", "thirdPartyScripts",
   "onBeforeUnload", "fingerprintingAPIs", "base64InLinks"}

BoolFields == {"mixedContent", "metaRefresh", "onBeforeUnload"}

\* The largest value of a count that does not satisfy its rule's trigger.
Threshold(fld) ==
  CASE fld = "inlineHandlers" -> 20
    [] fld = "shortenerLinks" -> 3
    [] fld = "thirdPartyScripts" -> 10
    [] OTHER -> 0

DownloadList(n) == [i \in 1..n |-> "http://dl.test/setup.exe"]

\* T: the fields that trigger; v: 0 puts every count at its smallest value
\* (0 below, threshold+1 above), v > 0 puts an untriggered count on its
\* threshold and a triggered one v above the smallest triggering value.
Vector(T, v) ==
  [fld \in FieldNames |->
     IF fld \in BoolFields THEN fld \in T
     ELSE IF fld = "execDownloads"
          THEN (IF fld \in T THEN DownloadList(1 + v) ELSE <<>>)
          ELSE IF fld \in T THEN Threshold(fld) + 1 + v
               ELSE IF v = 0 THEN 0 ELSE Threshold(fld)]

(***************************************************************************)
(* The pages and elements collect_features is run on.                      *)
(***************************************************************************)
PageURLs ==
  { [ok |-> TRUE, scheme |-> "https://", host |-> "ex.test", path |-> "/p"],
    [ok |-> TRUE, scheme |-> "HTTPS://", host |-> "ex.test", path |-> "/p"],
    [ok |-> TRUE, scheme |-> "http://", host |-> "ex.test", path |-> "/p"] }

ScanElements ==
  { [Element EXCEPT !.tag = "img", !.src = Abs("http://", "cdn.test", "/a.png")],
    [Element EXCEPT !.tag = "img", !.src = Abs(" HTTP://", "cdn.test", "/a.png")],
    [Element EXCEPT !.tag = "img", !.src = Rel("/a.png")],
    [Element EXCEPT !.tag = "link", !.src = Rel("/a.png"),
                    !.href = Abs("http://", "cdn.test", "/a.css")],
    [Element EXCEPT !.tag = "link", !.src = EmptyLink,
                    !.href = Abs("http://", "cdn.test", "/a.css")],
    [Element EXCEPT !.tag = "meta", !.httpEquiv = "refresh"],
    [Element EXCEPT !.tag = "meta", !.httpEquiv = "Refresh"],
    [Element EXCEPT !.tag = "meta", !.httpEquiv = "REFRESH"],
    [Element EXCEPT !.tag = "meta", !.httpEquiv = "rEfResH"],
    [Element EXCEPT !.tag = "a", !.href = BadLink, !.attrs = {"download"}],
    [Element EXCEPT !.tag = "a", !.href = Abs("http://", "bit.ly", "/x")],
    [Element EXCEPT !.tag = "a", !.href = Abs("http://", "203.0.113.5", "/pay")],
    [Element EXCEPT !.tag = "a", !.href = Abs("https://", "evil.zip", "")],
    [Element EXCEPT !.tag = "a", !.href = Abs("data:", "", "text/html;base64,AAAA")],
    [Element EXCEPT !.tag = "a", !.href = Rel("/setup.exe")],
    [Element EXCEPT !.tag = "a", !.href = Rel("/doc"), !.attrs = {"download", "onclick"}],
    [Element EXCEPT !.tag = "form", !.action = BadLink],
    [Element EXCEPT !.tag = "form", !.action = Abs("http://", "ex.test", "/login")],
    [Element EXCEPT !.tag = "form", !.action = Rel("/login")],
    [Element EXCEPT !.tag = "script", !.src = BadLink],
    [Element EXCEPT !.tag = "script", !.src = Abs("https://", "cdn.test", "/lib.js")],
    [Element EXCEPT !.tag = "script", !.src = Rel("/app.js")],
    [Element EXCEPT !.tag = "script", !.text = "eval(x)"],
    [Element EXCEPT !.tag = "script", !.text = "s='data:text/javascript,1'"],
    [Element EXCEPT !.tag = "script", !.text = "navigator.deviceMemory"],
    [Element EXCEPT !.tag = "iframe", !.style = "DISPLAY:NONE"],
    [Element EXCEPT !.tag = "iframe", !.width = "0"],
    [Element EXCEPT !.tag = "iframe", !.width = "100"],
    [Element EXCEPT !.tag = "div", !.attrs = {"onclick", "onbeforeunload", "ondrag"}] }

ScanDocs ==
  UNION { [1..n -> ScanElements] : n \in 0..MaxEls }

(***************************************************************************)
(* The pages the handlers fetch: up to MaxNodes elements, with no head, a  *)
(* head at top level around a run of them, or that head inside a div.      *)
(***************************************************************************)
\* How many elements (besides the head and its wrapper) a fetched page holds.
MaxNodes == 2

PageElements ==
  { [Element EXCEPT !.tag = "meta", !.httpEquiv = "Content-Security-Policy"],
    [Element EXCEPT !.tag = "meta", !.httpEquiv = "CONTENT-SECURITY-POLICY"],
    [Element EXCEPT !.tag = "meta", !.httpEquiv = "refresh"],
    [Element EXCEPT !.tag = "base", !.href = Rel("/old/")],
    [Element EXCEPT !.tag = "script", !.src = BadLink],
    [Element EXCEPT !.tag = "div",
       !.kids = <<[Element EXCEPT !.tag = "meta", !.httpEquiv = "content-security-policy"],
                  [Element EXCEPT !.tag = "a", !.href = Abs("http://", "bit.ly", "/x")]>>] }

Slice(seq, a, b) == [i \in 1..(b - a + 1) |-> seq[a + i - 1]]

\* els with a head around els[a..b] (empty when b = a - 1).
WithHead(els, a, b) ==
  Slice(els, 1, a - 1)
    \o <<[Element EXCEPT !.tag = "head", !.kids = Slice(els, a, b)]>>
    \o Slice(els, b + 1, Len(els))

WithNestedHead(els, a, b) ==
  Slice(els, 1, a - 1)
    \o <<[Element EXCEPT !.tag = "div",
            !.kids = <<[Element EXCEPT !.tag = "head", !.kids = Slice(els, a, b)]>>]>>
    \o Slice(els, b + 1, Len(els))

PageDocs ==
  LET seqs == UNION { [1..n -> PageElements] : n \in 0..MaxNodes }
  IN  seqs
      \cup { WithHead(els, a, b) : <<els, a, b>> \in
               { t \in seqs \X (1..(MaxNodes + 1)) \X (0..MaxNodes) :
                   t[2] <= Len(t[1]) + 1 /\ t[3] >= t[2] - 1 /\ t[3] <= Len(t[1]) } }
      \cup { WithNestedHead(els, a, b) : <<els, a, b>> \in
               { t \in seqs \X (1..(MaxNodes + 1)) \X (0..MaxNodes) :
                   t[2] <= Len(t[1]) + 1 /\ t[3] >= t[2] - 1 /\ t[3] <= Len(t[1]) } }

FetchErrors == {"Read timed out.", "Connection refused"}

ContentTypes == {"", "text/html; charset=utf-8", "application/xhtml+xml"}

(***************************************************************************)
(* State.  pc is the position of the one call or request in progress; req  *)
(* the request (op, the url parameter as sent, the url after strip()),     *)
(* html the fetched text, feats and result the scanner's outputs, resp the *)
(* response, fetched the outcome of requests.get, core the core functions  *)
(* entered so far.                                                         *)
(***************************************************************************)
NoPage == [ok |-> TRUE, scheme |-> "", host |-> "", path |-> ""]

NoRequest == [op |-> "", param |-> "", url |-> NoPage]

NoHTML == [nodes |-> <<>>, malformed |-> FALSE]

NoResponse ==
  [status |-> 0, kind |-> "", detail |-> "", mimetype |-> "", body |-> NoHTML]

Init ==
  /\ pc = "idle"
  /\ req = NoRequest
  /\ html = NoHTML
  /\ feats = ZeroFeatures
  /\ result = NoResult
  /\ resp = NoResponse
  /\ fetched = "no"
  /\ core = {}

(***************************************************************************)
(* The scorer called on its own.                                           *)
(***************************************************************************)
\* The caller's vector is bound to the parameter f.
ScoreCall ==
  /\ pc = "idle"
  /\ \E T \in SUBSET FieldNames, v \in 0..MaxRaise : feats' = Vector(T, v)
  /\ pc' = "scoring"
  /\ UNCHANGED <<req, html, result, resp, fetched, core>>

\* The body of score_features runs and returns (s, level, issues).
ScoreRun ==
  /\ pc = "scoring"
  /\ result' = score_features(feats)
  /\ pc' = "scored"
  /\ UNCHANGED <<req, html, feats, resp, fetched, core>>

ScoreReturn ==
  /\ pc = "scored"
  /\ pc' = "idle"
  /\ feats' = ZeroFeatures
  /\ result' = NoResult
  /\ UNCHANGED <<req, html, resp, fetched, core>>

NextScore == ScoreCall \/ ScoreRun \/ ScoreReturn

SpecScore == Init /\ [][NextScore]_vars

(***************************************************************************)
(* The extractor called on its own, its vector then scored (api_scan's     *)
(* two core calls).                                                        *)
(***************************************************************************)
CollectCall ==
  /\ pc = "idle"
  /\ \E u \in PageURLs, nodes \in ScanDocs, m \in BOOLEAN :
       /\ req' = [op |-> "collect", param |-> "given", url |-> u]
       /\ html' = [nodes |-> nodes, malformed |-> m]
       /\ feats' = collect_features(u, [nodes |-> nodes, malformed |-> m])
       /\ result' = score_features(collect_features(u, [nodes |-> nodes, malformed |-> m]))
  /\ pc' = "collected"
  /\ UNCHANGED <<resp, fetched, core>>

CollectReturn ==
  /\ pc = "collected"
  /\ pc' = "idle"
  /\ req' = NoRequest
  /\ html' = NoHTML
  /\ feats' = ZeroFeatures
  /\ result' = NoResult
  /\ UNCHANGED <<resp, fetched, core>>

NextCollect == CollectCall \/ CollectReturn

SpecCollect == Init /\ [][NextCollect]_vars

(***************************************************************************)
(* The request handlers api_scan (/api/scan) and sandbox_proxy (/sandbox). *)
(***************************************************************************)
\* request.args.get("url", "").strip(): "" for a missing or a blank parameter.
url_arg_unstripped(param) == param \in {"given", "blank"}

url_arg(param) == param = "given"

\* (content_type or "text/html").split(";")[0]; a response without the
\* header gets the default "text/html; charset=utf-8".
mimetype_of(content_type) ==
  IF content_type \in {"", "text/html; charset=utf-8"} THEN "text/html"
  ELSE content_type

\* Lines 146-148 and 162-164: the parameter is read and checked.
Receive ==
  /\ pc = "idle"
  /\ \E op \in {"scan", "sandbox"}, param \in {"missing", "blank", "given"}, u \in PageURLs :
       IF url_arg(param)
       THEN /\ req' = [op |-> op, param |-> param, url |-> u]
            /\ pc' = "fetch"
            /\ resp' = resp
       ELSE /\ req' = [op |-> op, param |-> param, url |-> NoPage]
            /\ pc' = "done"
            /\ resp' = [NoResponse EXCEPT !.status = 400, !.kind = "missing url"]
  /\ UNCHANGED <<html, feats, result, fetched, core>>

\* requests.get returns: r.text and the Content-Type header are kept.
FetchOk ==
  /\ pc = "fetch"
  /\ \E nodes \in PageDocs, m \in BOOLEAN, ct \in ContentTypes :
       /\ html' = [nodes |-> nodes, malformed |-> m]
       /\ resp' = [resp EXCEPT !.mimetype = mimetype_of(ct)]
  /\ fetched' = "ok"
  /\ pc' = "core"
  /\ UNCHANGED <<req, feats, result, core>>

\* requests.get raises: 500 with the detail (scan), 502 with it (sandbox).
FetchFail ==
  /\ pc = "fetch"
  /\ \E e \in FetchErrors :
       resp' = [NoResponse EXCEPT
                  !.status = IF req.op = "scan" THEN 500 ELSE 502,
                  !.kind = "fetch_error",
                  !.detail = e]
  /\ fetched' = "fail"
  /\ pc' = "done"
  /\ UNCHANGED <<req, html, feats, result, core>>

\* Lines 154-156: collect_features, score_features, the JSON answer.
ScanCore ==
  /\ pc = "core" /\ req.op = "scan"
  /\ feats' = collect_features(req.url, html)
  /\ result' = score_features(collect_features(req.url, html))
  /\ core' = {"collect_features", "score_features"}
  /\ resp' = [NoResponse EXCEPT !.status = 200, !.kind = "scan", !.mimetype = "application/json"]
  /\ pc' = "done"
  /\ UNCHANGED <<req, html, fetched>>

\* Lines 172-193: the rewritten page, served with the fetched mimetype.
SandboxCore ==
  /\ pc = "core" /\ req.op = "sandbox"
  /\ core' = {"sanitize"}
  /\ resp' = [resp EXCEPT !.status = 200, !.kind = "page",
                          !.body = sandbox_body(req.url, html)]
  /\ pc' = "done"
  /\ UNCHANGED <<req, html, feats, result, fetched>>

\* The parser gives up on the markup (bs4's ParserRejectedMarkup): neither
\* handler catches it, and the framework answers 500.
ParserRejects ==
  /\ pc = "core" /\ html.malformed
  /\ core' = IF req.op = "scan" THEN {"collect_features"} ELSE {"sanitize"}
  /\ resp' = [NoResponse EXCEPT !.status = 500, !.kind = "unhandled exception"]
  /\ pc' = "done"
  /\ UNCHANGED <<req, html, feats, result, fetched>>

\* The response is sent; the next request starts from scratch.
Respond ==
  /\ pc = "done"
  /\ pc' = "idle"
  /\ req' = NoRequest
  /\ html' = NoHTML
  /\ feats' = ZeroFeatures
  /\ result' = NoResult
  /\ resp' = NoResponse
  /\ fetched' = "no"
  /\ core' = {}

Next ==
  \/ Receive
  \/ FetchOk
  \/ FetchFail
  \/ ScanCore
  \/ SandboxCore
  \/ ParserRejects
  \/ Respond

Spec == Init /\ [][Next]_vars

(***************************************************************************)
(* The rule table of the scorer as the specification declares it: field,   *)
(* weight and the finding each rule reports, in declaration order.         *)
(***************************************************************************)
RuleTable ==
  << [fld |-> "mixedContent",       w |-> 25, text |-> "Mixed content on HTTPS (+25)"],
     [fld |-> "metaRefresh",        w |-> 10, text |-> "Meta refresh redirect (+10)"],
     [fld |-> "inlineHandlers",     w |-> 10, text |-> "Many inline event handlers (+10)"],
     [fld |-> "suspiciousInlineJS", w |-> 20, text |-> "Suspicious inline JS (eval/new Function/atob) (+20)"],
     [fld |-> "dataURIScripts",     w |-> 10, text |-> "Data-URI scripts (+10)"],
     [fld |-> "shortenerLinks",     w |-> 15, text |-> "Multiple shortener links (+15)"],
     [fld |-> "ipLinks",            w |-> 10, text |-> "Links to raw IPs (+10)"],
     [fld |-> "suspiciousTLDs",     w |-> 10, text |-> "Suspicious TLDs used (+10)"],
     [fld |-> "execDownloads",      w |-> 20, text |-> "Executable/archived downloads present (+20)"],
     [fld |-> "formsToHTTP",        w |-> 20, text |-> "Forms submit to HTTP (+20)"],
     [fld |-> "hiddenIframes",      w |-> 10, text |-> "Hidden/zero-size iframes (+10)"],
     [fld |-> "thirdPartyScripts",  w |-> 10, text |-> "High number of third-party scripts (+10)"],
     [fld |-> "onBeforeUnload",     w |-> 10, text |-> "onbeforeunload trap (+10)"],
     [fld |-> "fingerprintingAPIs", w |-> 10, text |-> "Fingerprinting APIs present (+10)"],
     [fld |-> "base64InLinks",      w |-> 10, text |-> "Base64 found in links (+10)"] >>

\* Whether the value of field fld in vector f satisfies the trigger of its rule.
Triggers(f, fld) ==
  IF fld \in BoolFields THEN f[fld]
  ELSE IF fld = "execDownloads" THEN f[fld] # <<>>
  ELSE f[fld] > Threshold(fld)

TriggeredRules(f) == SelectSeq(RuleTable, LAMBDA r : Triggers(f, r.fld))

RECURSIVE WeightSum(_)
WeightSum(rs) == IF rs = <<>> THEN 0 ELSE Head(rs).w + WeightSum(Tail(rs))

Min(a, b) == IF a <= b THEN a ELSE b

\* Field fld of vector f raised by d above its current value.
Raised(f, fld, d) ==
  IF fld = "execDownloads"
  THEN [f EXCEPT ![fld] = DownloadList(Len(f[fld]) + d)]
  ELSE [f EXCEPT ![fld] = f[fld] + d]

\* Field fld of vector f, which does not trigger, set to a triggering value.
Triggering(f, fld, d) ==
  IF fld \in BoolFields THEN [f EXCEPT ![fld] = TRUE]
  ELSE IF fld = "execDownloads" THEN [f EXCEPT ![fld] = DownloadList(d)]
  ELSE [f EXCEPT ![fld] = Threshold(fld) + d]

\* C1: every scored vector gets a score within 0..100 and the level is High
\* exactly when score >= 70, Medium exactly when 40 <= score <= 69, and Low
\* exactly when score <= 39.
C1_ScoreRangeAndLevel ==
  pc = "scored" =>
    /\ result.score \in 0..100
    /\ result.level \in {"Low", "Medium", "High"}
    /\ (result.level = "High") <=> (result.score >= 70)
    /\ (result.level = "Medium") <=> (result.score >= 40 /\ result.score <= 69)
    /\ (result.level = "Low") <=> (result.score <= 39)

\* A vector scored exactly 70, the lowest High.
C1_Witness ==
  pc = "scored" /\ result.score = 70 /\ result.level = "High"

\* C2: the score is min(100, sum of the weights of the triggered rules), each
\* rule counted once; raising a count (or the execDownloads list) that
\* already triggers changes neither the score nor the issues.
C2_ScoreIsClampedWeightSum ==
  pc = "scored" =>
    /\ result.score = Min(100, WeightSum(TriggeredRules(feats)))
    /\ \A fld \in FieldNames \ BoolFields :
         Triggers(feats, fld) =>
           \A d \in {MaxRaise, 49} :
             LET g == score_features(Raised(feats, fld, d))
             IN  g.score = result.score /\ g.issues = result.issues

\* Two counts and the download list above their smallest triggering value,
\* scored below the clamp.
C2_Witness ==
  /\ pc = "scored"
  /\ feats.suspiciousInlineJS >= 2
  /\ Len(feats.execDownloads) >= 2
  /\ feats.shortenerLinks = 3
  /\ result.score = 40

\* C3: the issues hold exactly one entry per triggered rule, none for an
\* untriggered rule, each the rule's label with the weight added, in the
\* fixed declaration order.
C3_IssuesInDeclarationOrder ==
  pc = "scored" =>
    /\ Len(result.issues) = Len(TriggeredRules(feats))
    /\ \A i \in 1..Len(result.issues) :
         result.issues[i] = TriggeredRules(feats)[i].text

\* A scattered subset of rules: the first, the last and one in the middle.
C3_Witness ==
  /\ pc = "scored"
  /\ feats.mixedContent
  /\ feats.base64InLinks > 0
  /\ feats.execDownloads # <<>>
  /\ Len(result.issues) = 3

\* C4: making one untriggered field trigger, all else equal, never lowers the
\* score, and raises it strictly unless the score is already 100.
C4_Monotone ==
  pc = "scored" =>
    \A fld \in FieldNames :
      ~Triggers(feats, fld) =>
        \A d \in {1, 1 + MaxRaise} :
          LET g == score_features(Triggering(feats, fld, d))
          IN  /\ g.score >= result.score
              /\ (result.score < 100 => g.score > result.score)

\* A vector at 95: any further rule runs into the clamp.
C4_Witness ==
  /\ pc = "scored"
  /\ result.score = 95
  /\ \E fld \in FieldNames : ~Triggers(feats, fld)

(***************************************************************************)
(* What the handlers' claims speak of.                                     *)
(***************************************************************************)
\* An element without its children, and the document as the pre-order list
\* of its elements with their depths (which fixes the tree).
Shallow(el) == [el EXCEPT !.kids = <<>>]

RECURSIVE Outline(_, _)
Outline(nodes, d) ==
  IF nodes = <<>> THEN <<>>
  ELSE <<[el |-> Shallow(Head(nodes)), depth |-> d]>>
         \o Outline(Head(nodes).kids, d + 1) \o Outline(Tail(nodes), d)

Without(seq, S) ==
  LET F[i \in 0..Len(seq)] ==
        IF i = 0 THEN <<>>
        ELSE IF i \in S THEN F[i - 1] ELSE Append(F[i - 1], seq[i])
  IN  F[Len(seq)]

Heads(nodes) == {i \in 1..Len(Flatten(nodes)) : Flatten(nodes)[i].tag = "head"}

FirstHead(nodes) == CHOOSE i \in Heads(nodes) : \A j \in Heads(nodes) : i <= j

CSPMeta(el) ==
  /\ el.tag = "meta"
  /\ el.httpEquiv \in {"content-security-policy", "Content-Security-Policy",
                       "CONTENT-SECURITY-POLICY"}

CSPMetas(nodes) == {i \in 1..Len(Flatten(nodes)) : CSPMeta(Flatten(nodes)[i])}

\* The first head of the document has, as its first child, a base element
\* whose href is the page URL.
BaseLeadsHead(nodes, url) ==
  /\ Heads(nodes) # {}
  /\ LET h == Flatten(nodes)[FirstHead(nodes)]
     IN  /\ h.kids # <<>>
         /\ h.kids[1].tag = "base"
         /\ h.kids[1].href = [k |-> "abs", pre |-> url.scheme, host |-> url.host, path |-> url.path]

SandboxServed == pc = "done" /\ req.op = "sandbox" /\ resp.status = 200

\* C5: a missing or blank url ends in the client error with no fetch and no
\* core call; a failed fetch ends in the fetch error carrying the detail,
\* never a success, with no core call; the core runs only after a
\* successful fetch.
C5_ErrorsBypassCore ==
  /\ (pc # "idle" /\ req.param # "given") =>
       /\ pc = "done"
       /\ resp.status = 400 /\ resp.kind = "missing url"
       /\ fetched = "no" /\ core = {}
  /\ resp.status = 400 => (fetched = "no" /\ core = {})
  /\ fetched = "fail" =>
       /\ pc = "done"
       /\ resp.status = (IF req.op = "scan" THEN 500 ELSE 502)
       /\ resp.kind = "fetch_error" /\ resp.detail \in FetchErrors
       /\ resp.kind \notin {"scan", "page"}
       /\ core = {}
  /\ core # {} => fetched = "ok"
  /\ (pc = "done" /\ resp.status = 200) => (fetched = "ok" /\ core # {})

\* The sandbox answering a failed fetch.
C5_Witness ==
  /\ pc = "done" /\ req.op = "sandbox"
  /\ fetched = "fail" /\ resp.status = 502 /\ resp.detail = "Connection refused"

\* C6: the served page has a head (first node when the input had none),
\* whose first child is a base with href = the page URL; no CSP meta is
\* left; every other element is still there, unchanged, in place.
C6_SanitizedPage ==
  SandboxServed =>
    LET body == resp.body.nodes
        injected == {FirstHead(body) + 1}
                      \cup (IF Heads(html.nodes) = {} THEN {FirstHead(body)} ELSE {})
    IN  /\ Heads(body) # {}
        /\ (Heads(html.nodes) = {} => body[1].tag = "head" /\ FirstHead(body) = 1)
        /\ BaseLeadsHead(body, req.url)
        /\ CSPMetas(body) = {}
        /\ Without(Outline(body, 0), injected)
             = Without(Outline(html.nodes, 0), CSPMetas(html.nodes))

\* A page whose head starts with a CSP meta and holds another element.
C6_Witness ==
  /\ SandboxServed
  /\ \E i \in Heads(html.nodes) :
       /\ Len(Flatten(html.nodes)[i].kids) = 2
       /\ CSPMeta(Flatten(html.nodes)[i].kids[1])
  /\ Len(Flatten(resp.body.nodes)) = 3

Unresolvable(page_url, el) ==
  \/ el.tag = "a" /\ el.href.k # "absent" /\ ~normalize_url(page_url, el.href).ok
  \/ el.tag = "form" /\ el.action.k # "absent" /\ ~normalize_url(page_url, el.action).ok
  \/ el.tag = "script" /\ el.src.k # "absent" /\ ~normalize_url(page_url, el.src).ok

\* The fields collect_features derives from resolved links.
LinkFields ==
  {"shortenerLinks", "ipLinks", "suspiciousTLDs", "base64InLinks",
   "execDownloads", "formsToHTTP", "thirdPartyScripts"}

\* C8: mixedContent is true exactly when the page URL is https and some
\* element has a src or an href value starting with "http://" (compared
\* case-insensitively, surrounding whitespace ignored as the code ignores
\* it), also when the element carries both and only the href is http.
C8_MixedContentAnySrcOrHref ==
  pc = "collected" =>
    feats.mixedContent =
      (/\ lower(req.url.scheme) = "https://"
       /\ \E i \in 1..Len(Flatten(html.nodes)) :
            \/ starts_with_http(Flatten(html.nodes)[i].src)
            \/ starts_with_http(Flatten(html.nodes)[i].href))

\* C9: a script src, anchor href or form action whose resolution fails is
\* skipped: every link-derived field is what it is without those elements,
\* and the vector is complete.
C9_UnresolvableLinksSkipped ==
  pc = "collected" =>
    LET kept == SelectSeq(html.nodes, LAMBDA el : ~Unresolvable(req.url, el))
        clean == collect_features(req.url, [nodes |-> kept, malformed |-> html.malformed])
    IN  /\ DOMAIN feats = FieldNames
        /\ \A fld \in LinkFields : feats[fld] = clean[fld]

\* C10: metaRefresh is true exactly when some meta element's http-equiv
\* equals "refresh" compared case-insensitively.
C10_MetaRefreshAnyCasing ==
  pc = "collected" =>
    feats.metaRefresh =
      \E i \in 1..Len(Flatten(html.nodes)) :
        /\ Flatten(html.nodes)[i].tag = "meta"
        /\ lower(Flatten(html.nodes)[i].httpEquiv) = "refresh"

====
